---- MODULE Spec2Model ----
(***************************************************************************)
(* The research-and-critique workflow of graph.py: the six nodes of the   *)
(* compiled StateGraph (planner, retriever, summarizer, critic,           *)
(* synthesizer, retry), the conditional edge after the critic and the     *)
(* entry point analyze_stock_question.                                    *)
(*                                                                         *)
(* Texts are sequences of one-character strings, so that the parsing the  *)
(* nodes do (strip, split, startswith, isdigit, the \d+ search) is        *)
(* computed on characters.  A fixed phrase of the source (a placeholder,  *)
(* a suffix) is one token of such a sequence.  A Python dict is a function *)
(* whose DOMAIN is the set of keys present.                                *)
(***************************************************************************)
EXTENDS Integers, Sequences, FiniteSets, TLC

VARIABLES
    pc,          \* the node the graph executes next, or "done" once END is reached
    state,       \* the state dict threaded through the nodes; the result at "done"
    executions,  \* how many times each node has been executed in this run
    strategy,    \* the strategy retry_retrieval logged last ("none" before any retry)
    llm_calls,   \* the calls of the language capability the node executed last
                 \* made: the positions of the entries a summarizer called it
                 \* for, position 0 for the single call of another node
    tasks        \* the fetch_with_retry tasks of a retriever that is awaiting
                 \* asyncio.gather, one per query; <<>> when none is awaiting

vars == <<pc, state, executions, strategy, llm_calls, tasks>>

(***************************************************************************)
(* Bounds of the model.                                                    *)
(***************************************************************************)
\* the largest max_retries a caller passes in the model
MaxRetriesCap == 7

(***************************************************************************)
(* Python's dict operations.                                               *)
(***************************************************************************)
EmptyDict == [k \in {} |-> 0]

\* {**d, k: v}
Put(d, k, v) == [x \in DOMAIN d \cup {k} |-> IF x = k THEN v ELSE d[x]]

\* d.get(k, default)
Get(d, k, default) == IF k \in DOMAIN d THEN d[k] ELSE default

(***************************************************************************)
(* Python's str operations, on sequences of characters.                    *)
(***************************************************************************)
Whitespace == {" ", "\n", "\t"}

DigitChars == <<"0", "1", "2", "3", "4", "5", "6", "7", "8", "9">>

\* c.isdigit()
IsDigit(c) == \E i \in 1..Len(DigitChars) : DigitChars[i] = c

DigitVal(c) == (CHOOSE i \in 1..Len(DigitChars) : DigitChars[i] = c) - 1

RECURSIVE LStrip(_)
LStrip(s) == IF s # <<>> /\ Head(s) \in Whitespace THEN LStrip(Tail(s)) ELSE s

RECURSIVE RStrip(_)
RStrip(s) ==
    IF s # <<>> /\ s[Len(s)] \in Whitespace
    THEN RStrip(SubSeq(s, 1, Len(s) - 1))
    ELSE s

\* s.strip()
Strip(s) == RStrip(LStrip(s))

\* the position of the first occurrence of the character c in s, 0 if none
IndexOf(s, c) ==
    IF \E i \in 1..Len(s) : s[i] = c
    THEN CHOOSE i \in 1..Len(s) : s[i] = c /\ \A j \in 1..(i - 1) : s[j] # c
    ELSE 0

\* s.split(c): every piece between occurrences of c, empty pieces included
RECURSIVE Split(_, _)
Split(s, c) ==
    IF IndexOf(s, c) = 0
    THEN <<s>>
    ELSE <<SubSeq(s, 1, IndexOf(s, c) - 1)>>
             \o Split(SubSeq(s, IndexOf(s, c) + 1, Len(s)), c)

\* s.split(c, 1)[-1]: the text after the first c, the whole of s if it has no c
AfterFirst(s, c) ==
    IF IndexOf(s, c) = 0 THEN s ELSE SubSeq(s, IndexOf(s, c) + 1, Len(s))

\* s.startswith(p)
StartsWith(s, p) == Len(s) >= Len(p) /\ SubSeq(s, 1, Len(p)) = p

\* c.lower(), for the letters the model's texts use
LowerChar(c) ==
    CASE c = "S" -> "s"
      [] c = "C" -> "c"
      [] c = "O" -> "o"
      [] c = "R" -> "r"
      [] c = "E" -> "e"
      [] OTHER -> c

\* s.lower()
Lower(s) == [i \in 1..Len(s) |-> LowerChar(s[i])]

\* s[:n]
Take(s, n) == SubSeq(s, 1, IF Len(s) < n THEN Len(s) ELSE n)

\* sep.join(parts)
RECURSIVE Join(_, _)
Join(sep, parts) ==
    IF parts = <<>> THEN <<>>
    ELSE IF Len(parts) = 1 THEN parts[1]
    ELSE parts[1] \o sep \o Join(sep, Tail(parts))

\* re.findall(r'\d+', s) is not empty
HasNumber(s) == \E i \in 1..Len(s) : IsDigit(s[i])

\* re.findall(r'\d+', s)[0]: the first maximal run of digits of s
FirstNumber(s) ==
    LET i == CHOOSE i \in 1..Len(s) :
                 IsDigit(s[i]) /\ \A j \in 1..(i - 1) : ~IsDigit(s[j])
        j == CHOOSE j \in i..Len(s) :
                 /\ \A k \in i..j : IsDigit(s[k])
                 /\ (j = Len(s) \/ ~IsDigit(s[j + 1]))
    IN  SubSeq(s, i, j)

\* int(ds) for a string of digits
RECURSIVE ToInt(_)
ToInt(ds) ==
    IF ds = <<>> THEN 0
    ELSE ToInt(SubSeq(ds, 1, Len(ds) - 1)) * 10 + DigitVal(ds[Len(ds)])

\* min(a, b)
Min(a, b) == IF a < b THEN a ELSE b

(***************************************************************************)
(* Python values of unknown shape (what the search capability returns).    *)
(* A dict is its sequence of <<key, value>> pairs, in insertion order.     *)
(***************************************************************************)
None == [t |-> "none"]
StrVal(s) == [t |-> "str", s |-> s]
NumVal(n) == [t |-> "num", n |-> n]
ListVal(items) == [t |-> "list", items |-> items]
DictVal(pairs) == [t |-> "dict", pairs |-> pairs]

\* k in d
HasKey(d, k) == \E i \in 1..Len(d.pairs) : d.pairs[i][1] = k

\* d[k]
Lookup(d, k) == d.pairs[CHOOSE i \in 1..Len(d.pairs) : d.pairs[i][1] = k][2]

\* bool(v)
Truthy(v) ==
    CASE v.t = "none" -> FALSE
      [] v.t = "str"  -> v.s # <<>>
      [] v.t = "num"  -> v.n # 0
      [] v.t = "list" -> v.items # <<>>
      [] v.t = "dict" -> v.pairs # <<>>

\* repr(v) and str(v); a number is one token
RECURSIVE PyRepr(_)
RECURSIVE ReprItems(_)
RECURSIVE ReprPairs(_)
PyRepr(v) ==
    CASE v.t = "none" -> <<"N", "o", "n", "e">>
      [] v.t = "str"  -> <<"'">> \o v.s \o <<"'">>
      [] v.t = "num"  -> <<ToString(v.n)>>
      [] v.t = "list" -> <<"[">> \o ReprItems(v.items) \o <<"]">>
      [] v.t = "dict" -> <<"{">> \o ReprPairs(v.pairs) \o <<"}">>
ReprItems(items) ==
    IF items = <<>> THEN <<>>
    ELSE IF Len(items) = 1 THEN PyRepr(items[1])
    ELSE PyRepr(items[1]) \o <<",", " ">> \o ReprItems(Tail(items))
ReprPairs(pairs) ==
    IF pairs = <<>> THEN <<>>
    ELSE LET one == <<"'", pairs[1][1], "'", ":", " ">> \o PyRepr(pairs[1][2])
         IN  IF Len(pairs) = 1 THEN one
             ELSE one \o <<",", " ">> \o ReprPairs(Tail(pairs))

PyStr(v) == IF v.t = "str" THEN v.s ELSE PyRepr(v)

(***************************************************************************)
(* extract_content_from_search_result                                      *)
(***************************************************************************)
ItemContentKeys == <<"content", "text", "snippet", "description", "summary">>

DictContentKeys ==
    <<"content", "text", "snippet", "description", "summary", "results">>

\* the inner loop over the keys of one list item: the first key that is
\* present with a true value contributes str(item[key])[:500]
RECURSIVE ItemPart(_, _)
ItemPart(item, keys) ==
    IF keys = <<>> THEN <<>>
    ELSE IF HasKey(item, Head(keys)) /\ Truthy(Lookup(item, Head(keys)))
    THEN <<Take(PyStr(Lookup(item, Head(keys))), 500)>>
    ELSE ItemPart(item, Tail(keys))

\* content_parts of result[:3]
RECURSIVE ContentParts(_)
ContentParts(items) ==
    IF items = <<>> THEN <<>>
    ELSE (CASE Head(items).t = "dict" -> ItemPart(Head(items), ItemContentKeys)
            [] Head(items).t = "str"  -> <<Take(Head(items).s, 500)>>
            [] OTHER -> <<>>)
         \o ContentParts(Tail(items))

ExtractFromList(items) ==
    Join(<<"\n", "-", "-", "-", "\n">>, ContentParts(Take(items, 3)))

\* the loop over the keys of a dict result, and the fallback str(result)[:1000]
\* when no key returns
RECURSIVE ExtractFromDict(_, _)
ExtractFromDict(result, keys) ==
    IF keys = <<>> THEN Take(PyStr(result), 1000)
    ELSE IF HasKey(result, Head(keys))
    THEN IF Head(keys) = "results" /\ Lookup(result, Head(keys)).t = "list"
         THEN ExtractFromList(Lookup(result, Head(keys)).items)
         ELSE IF Truthy(Lookup(result, Head(keys)))
         THEN Take(PyStr(Lookup(result, Head(keys))), 1000)
         ELSE ExtractFromDict(result, Tail(keys))
    ELSE ExtractFromDict(result, Tail(keys))

extract_content_from_search_result(result) ==
    CASE result.t = "none" -> <<>>
      [] result.t = "str"  -> Take(result.s, 1000)
      [] result.t = "list" -> ExtractFromList(result.items)
      [] result.t = "dict" -> ExtractFromDict(result, DictContentKeys)
      [] OTHER -> Take(PyStr(result), 1000)

(***************************************************************************)
(* The capabilities the nodes call.  A call of the language capability     *)
(* (llm.invoke(prompt).content) or of the search capability                *)
(* (search_tool.ainvoke) either returns or raises.                         *)
(***************************************************************************)
Returns(v) == [ok |-> TRUE, value |-> v]
Raises(e) == [ok |-> FALSE, err |-> e]

\* the wall time a node measures (time.time() - start), in seconds
ElapsedTimes == {1}

(***************************************************************************)
(* plan_subquestions and plan_subquestions_refined                         *)
(***************************************************************************)
\* the loop over the lines of the output: a line that starts with a digit
\* contributes the text after its first "."
RECURSIVE ParseNumberedLines(_)
ParseNumberedLines(lines) ==
    IF lines = <<>> THEN <<>>
    ELSE LET line == Strip(Head(lines))
             question == Strip(AfterFirst(line, "."))
         IN  (IF /\ line # <<>>
                 /\ \/ StartsWith(line, <<"1", ".">>)
                    \/ StartsWith(line, <<"2", ".">>)
                    \/ StartsWith(line, <<"3", ".">>)
                    \/ IsDigit(line[1])
                 /\ question # <<>>
              THEN <<question>>
              ELSE <<>>)
             \o ParseNumberedLines(Tail(lines))

\* PadOrTruncate without the truncation to 3 (sensitivity of C9)
PadOrTruncate_NoTruncation(sub_questions, user_input) ==
    IF Len(sub_questions) < 3
    THEN sub_questions \o [i \in 1..(3 - Len(sub_questions)) |-> user_input]
    ELSE sub_questions

\* "Ensure we have exactly 3 questions"
PadOrTruncate(sub_questions, user_input) ==
    IF Len(sub_questions) < 3
    THEN sub_questions \o [i \in 1..(3 - Len(sub_questions)) |-> user_input]
    ELSE IF Len(sub_questions) > 3
    THEN SubSeq(sub_questions, 1, 3)
    ELSE sub_questions

\* PlannerFallback degrading to an empty list (sensitivity of C10)
PlannerFallback_Empty(st) == Put(st, "sub_questions", <<>>)

\* the except branch of plan_subquestions
PlannerFallback(st) == Put(st, "sub_questions", <<st.user_input>>)

plan_subquestions(st, response, dt) ==
    IF response.ok
    THEN Put(Put(st, "sub_questions",
                 PadOrTruncate(
                     ParseNumberedLines(Split(Strip(response.value), "\n")),
                     st.user_input)),
             "processing_time",
             Put(Get(st, "processing_time", EmptyDict), "planning", dt))
    ELSE PlannerFallback(st)

\* plan_subquestions_refined that falls back to the question itself when
\* its call fails, as the planner does (sensitivity of C35)
plan_subquestions_refined_Fallback(st, response) ==
    IF response.ok
    THEN Put(st, "sub_questions",
             PadOrTruncate(
                 ParseNumberedLines(Split(Strip(response.value), "\n")),
                 st.user_input))
    ELSE PlannerFallback(st)

plan_subquestions_refined(st, response) ==
    IF response.ok
    THEN Put(st, "sub_questions",
             PadOrTruncate(
                 ParseNumberedLines(Split(Strip(response.value), "\n")),
                 st.user_input))
    ELSE st

(***************************************************************************)
(* retrieve_each                                                           *)
(***************************************************************************)
\* the default of fetch_with_retry's max_retries parameter
FetchMaxRetries == 2

\* the loop of fetch_with_retry from attempt on; outcomes[k] is what the
\* search capability does at the k-th call for this query
RECURSIVE FetchFrom(_, _, _, _)
FetchFrom(query, outcomes, attempt, max_retries) ==
    IF outcomes[attempt + 1].ok
    THEN [question |-> query, result |-> outcomes[attempt + 1].value,
          attempt |-> attempt + 1]
    ELSE IF attempt = max_retries
    THEN [question |-> query, result |-> None,
          error |-> outcomes[attempt + 1].err]
    ELSE FetchFrom(query, outcomes, attempt + 1, max_retries)

fetch_with_retry(query, outcomes) ==
    FetchFrom(query, outcomes, 0, FetchMaxRetries)

\* a retriever that also clears the summaries of the previous cycle
\* (sensitivity of C31)
StoreResults_ClearsSummaries(st, results, dt) ==
    Put(Put(Put(st, "search_results", results),
            "processing_time",
            Put(Get(st, "processing_time", EmptyDict), "retrieval", dt)),
        "summarized_chunks", <<>>)

\* the return of retrieve_each once the gather has delivered results
StoreResults(st, results, dt) ==
    Put(Put(st, "search_results", results),
        "processing_time",
        Put(Get(st, "processing_time", EmptyDict), "retrieval", dt))

\* retrieve_each whose outer except branch returns the state as it was
\* (sensitivity of C14)
retrieve_each_KeepsState(st, search, unexpected, dt) ==
    LET queries == st.sub_questions
        results == [i \in 1..Len(queries) |->
                        fetch_with_retry(queries[i], search[i])]
    IN  IF unexpected
        THEN st
        ELSE StoreResults(st, results, dt)

\* search[i] is the behaviour of the search capability for the i-th query;
\* unexpected is whether asyncio.gather raises (the outer except branch)
retrieve_each(st, search, unexpected, dt) ==
    LET queries == st.sub_questions
        results == [i \in 1..Len(queries) |->
                        fetch_with_retry(queries[i], search[i])]
    IN  IF unexpected
        THEN Put(st, "search_results", <<>>)
        ELSE StoreResults(st, results, dt)

(***************************************************************************)
(* fetch_with_retry step by step: the tasks of one gather run concurrently *)
(* and each of them yields at its search call and at its sleep.            *)
(***************************************************************************)
RetryDelay == 1

\* the task fetch_with_retry(query) before its first attempt
NewTask(query) ==
    [question |-> query, status |-> "calling", attempt |-> 0,
     calls |-> 0, failures |-> 0, slept |-> 0, entry |-> None]

\* fetch_with_retry with one attempt more than max_retries allows
\* (sensitivity of C12)
TaskStep_OneMoreAttempt(task, outcome, max_retries) ==
    IF task.status = "sleeping"
    THEN [task EXCEPT !.status = "calling", !.attempt = @ + 1]
    ELSE IF outcome.ok
    THEN [task EXCEPT !.status = "done", !.calls = @ + 1,
                      !.entry = [question |-> task.question,
                                 result |-> outcome.value,
                                 attempt |-> task.attempt + 1]]
    ELSE IF task.attempt = max_retries + 1
    THEN [task EXCEPT !.status = "done", !.calls = @ + 1,
                      !.failures = @ + 1,
                      !.entry = [question |-> task.question,
                                 result |-> None,
                                 error |-> outcome.err]]
    ELSE [task EXCEPT !.status = "sleeping", !.calls = @ + 1,
                      !.failures = @ + 1, !.slept = @ + RetryDelay]

\* one step of a task: a task at its search call gets the outcome of the
\* call and returns its entry, or starts to sleep; a sleeping task wakes
\* up for the next attempt
TaskStep(task, outcome, max_retries) ==
    IF task.status = "sleeping"
    THEN [task EXCEPT !.status = "calling", !.attempt = @ + 1]
    ELSE IF outcome.ok
    THEN [task EXCEPT !.status = "done", !.calls = @ + 1,
                      !.entry = [question |-> task.question,
                                 result |-> outcome.value,
                                 attempt |-> task.attempt + 1]]
    ELSE IF task.attempt = max_retries
    THEN [task EXCEPT !.status = "done", !.calls = @ + 1,
                      !.failures = @ + 1,
                      !.entry = [question |-> task.question,
                                 result |-> None,
                                 error |-> outcome.err]]
    ELSE [task EXCEPT !.status = "sleeping", !.calls = @ + 1,
                      !.failures = @ + 1, !.slept = @ + RetryDelay]

RECURSIVE EntriesWithoutError(_)
EntriesWithoutError(ts) ==
    IF ts = <<>> THEN <<>>
    ELSE IF "error" \in DOMAIN Head(ts).entry
    THEN EntriesWithoutError(Tail(ts))
    ELSE <<Head(ts).entry>> \o EntriesWithoutError(Tail(ts))

\* a gather that hands back the entries of the successful tasks only
\* (sensitivity of C11)
GatherResults_DropsErrors(ts) == EntriesWithoutError(ts)

\* a gather that returns as soon as one task has returned (sensitivity of
\* C29)
GatherReady_FirstReturned(ts) ==
    \E i \in 1..Len(ts) : ts[i].status = "done"

\* when the await of asyncio.gather returns: every task has returned
GatherReady(ts) ==
    \A i \in 1..Len(ts) : ts[i].status = "done"

\* what asyncio.gather hands back: the return values of the tasks in the
\* order of the awaitables it was given
GatherResults(ts) == [i \in 1..Len(ts) |-> ts[i].entry]

(***************************************************************************)
(* summarize_chunks                                                        *)
(***************************************************************************)
\* the iteration with llm.invoke ahead of its two tests (sensitivity of C16)
SummarizeEntry_InvokesFirst(chunk, response) ==
    IF "error" \in DOMAIN chunk
    THEN [summary |-> <<"Unable to retrieve information for: ">>
                          \o chunk.question
                          \o <<" (Error: ">> \o chunk.error \o <<")">>,
          invoked |-> TRUE]
    ELSE LET content == extract_content_from_search_result(chunk.result)
         IN  IF content = <<>> \/ Len(Strip(content)) < 10
             THEN [summary |-> <<"No relevant information found for: ">>
                                   \o chunk.question,
                   invoked |-> TRUE]
             ELSE IF response.ok
             THEN [summary |-> <<"Q: ">> \o chunk.question
                                   \o <<"\n", "A: ">> \o response.value,
                   invoked |-> TRUE]
             ELSE [summary |-> <<"Error processing: ">> \o chunk.question,
                   invoked |-> TRUE]

\* the iteration without its test for an error entry (sensitivity of C13)
SummarizeEntry_NoErrorCheck(chunk, response) ==
    LET content == extract_content_from_search_result(chunk.result)
    IN  IF content = <<>> \/ Len(Strip(content)) < 10
        THEN [summary |-> <<"No relevant information found for: ">>
                              \o chunk.question,
              invoked |-> FALSE]
        ELSE IF response.ok
        THEN [summary |-> <<"Q: ">> \o chunk.question
                              \o <<"\n", "A: ">> \o response.value,
              invoked |-> TRUE]
        ELSE [summary |-> <<"Error processing: ">> \o chunk.question,
              invoked |-> TRUE]

\* one iteration of the loop over state["search_results"]: the summary it
\* appends and whether it reaches llm.invoke
SummarizeEntry(chunk, response) ==
    IF "error" \in DOMAIN chunk
    THEN [summary |-> <<"Unable to retrieve information for: ">>
                          \o chunk.question
                          \o <<" (Error: ">> \o chunk.error \o <<")">>,
          invoked |-> FALSE]
    ELSE LET content == extract_content_from_search_result(chunk.result)
         IN  IF content = <<>> \/ Len(Strip(content)) < 10
             THEN [summary |-> <<"No relevant information found for: ">>
                                   \o chunk.question,
                   invoked |-> FALSE]
             ELSE IF response.ok
             THEN [summary |-> <<"Q: ">> \o chunk.question
                                   \o <<"\n", "A: ">> \o response.value,
                   invoked |-> TRUE]
             ELSE [summary |-> <<"Error processing: ">> \o chunk.question,
                   invoked |-> TRUE]

SummaryOf(chunk, response) == SummarizeEntry(chunk, response).summary

\* the entries of state["search_results"] the loop calls llm.invoke for
SummarizerCalls(st, llm) ==
    {i \in 1..Len(st.search_results) :
        SummarizeEntry(st.search_results[i], llm[i]).invoked}

\* llm[i] is what the language capability does if it is called for the
\* i-th entry
\* the summaries of a loop that a failing llm.invoke ends
RECURSIVE SummariesUntilFailure(_, _, _)
SummariesUntilFailure(chunks, llm, i) ==
    IF i > Len(chunks) THEN <<>>
    ELSE IF SummarizeEntry(chunks[i], llm[i]).invoked /\ ~llm[i].ok
    THEN <<>>
    ELSE <<SummaryOf(chunks[i], llm[i])>>
             \o SummariesUntilFailure(chunks, llm, i + 1)

\* summarize_chunks with its try/except around the loop instead of inside
\* it (sensitivity of C15)
summarize_chunks_AbortOnFailure(st, llm, dt) ==
    LET chunks == st.search_results
        summaries == SummariesUntilFailure(chunks, llm, 1)
    IN  Put(Put(st, "summarized_chunks", summaries),
            "processing_time",
            Put(Get(st, "processing_time", EmptyDict), "summarization", dt))

summarize_chunks(st, llm, dt) ==
    LET chunks == st.search_results
        summaries == [i \in 1..Len(chunks) |-> SummaryOf(chunks[i], llm[i])]
    IN  Put(Put(st, "summarized_chunks", summaries),
            "processing_time",
            Put(Get(st, "processing_time", EmptyDict), "summarization", dt))

(***************************************************************************)
(* critic_node and score_based_decision                                    *)
(***************************************************************************)
ScorePrefix == <<"s", "c", "o", "r", "e", ":">>

\* the loop without its break: a later score line may still decide
\* (sensitivity of C18)
RECURSIVE ScoreFromLines_NoBreak(_)
ScoreFromLines_NoBreak(lines) ==
    IF lines = <<>> THEN 6
    ELSE IF StartsWith(Lower(Strip(Head(lines))), ScorePrefix)
            /\ HasNumber(Strip(AfterFirst(Head(lines), ":")))
    THEN Min(ToInt(FirstNumber(Strip(AfterFirst(Head(lines), ":")))), 10)
    ELSE ScoreFromLines_NoBreak(Tail(lines))

\* the score the loop over result.split('\n') leaves: the first line that
\* starts with "score:" decides, whether or not it holds a number
RECURSIVE ScoreFromLines(_)
ScoreFromLines(lines) ==
    IF lines = <<>> THEN 6
    ELSE IF StartsWith(Lower(Strip(Head(lines))), ScorePrefix)
    THEN LET score_part == Strip(AfterFirst(Head(lines), ":"))
         IN  IF HasNumber(score_part)
             THEN Min(ToInt(FirstNumber(score_part)), 10)
             ELSE 6
    ELSE ScoreFromLines(Tail(lines))

critic_node(st, response, dt) ==
    IF response.ok
    THEN Put(Put(Put(st, "critic_score",
                     ScoreFromLines(Split(response.value, "\n"))),
                 "critic_feedback", Strip(response.value)),
             "processing_time",
             Put(Get(st, "processing_time", EmptyDict), "critic", dt))
    ELSE Put(Put(st, "critic_score", 6),
             "critic_feedback", <<"Error in evaluation">>)

\* score_based_decision with the ceiling test off by one, late
\* (sensitivity of C1, C6)
score_based_decision_Late(st) ==
    IF \/ Get(st, "critic_score", 0) >= Get(st, "target_score", 6)
       \/ Get(st, "retry_count", 0) > Get(st, "max_retries", 5)
    THEN "good_summary"
    ELSE "poor_summary"

\* score_based_decision with the ceiling test off by one, early
\* (sensitivity of C3)
score_based_decision_Early(st) ==
    IF \/ Get(st, "critic_score", 0) >= Get(st, "target_score", 6)
       \/ Get(st, "retry_count", 0) + 1 >= Get(st, "max_retries", 5)
    THEN "good_summary"
    ELSE "poor_summary"

\* score_based_decision with "and" for "or" (sensitivity of C5)
score_based_decision_And(st) ==
    IF /\ Get(st, "critic_score", 0) >= Get(st, "target_score", 6)
       /\ Get(st, "retry_count", 0) >= Get(st, "max_retries", 5)
    THEN "good_summary"
    ELSE "poor_summary"

\* score_based_decision with a strict score test (sensitivity of C7)
score_based_decision_Strict(st) ==
    IF \/ Get(st, "critic_score", 0) > Get(st, "target_score", 6)
       \/ Get(st, "retry_count", 0) >= Get(st, "max_retries", 5)
    THEN "good_summary"
    ELSE "poor_summary"

\* score_based_decision with the score test turned round (sensitivity of
\* C23)
score_based_decision_ScoreReversed(st) ==
    IF \/ Get(st, "critic_score", 0) <= Get(st, "target_score", 6)
       \/ Get(st, "retry_count", 0) >= Get(st, "max_retries", 5)
    THEN "good_summary"
    ELSE "poor_summary"

\* score_based_decision with the budget test turned round (sensitivity of
\* C24)
score_based_decision_BudgetReversed(st) ==
    IF \/ Get(st, "critic_score", 0) >= Get(st, "target_score", 6)
       \/ Get(st, "retry_count", 0) <= Get(st, "max_retries", 5)
    THEN "good_summary"
    ELSE "poor_summary"

\* score_based_decision that looks at the score alone (sensitivity of C33)
score_based_decision_ScoreOnly(st) ==
    IF Get(st, "critic_score", 0) >= Get(st, "target_score", 6)
    THEN "good_summary"
    ELSE "poor_summary"

score_based_decision(st) ==
    LET score == Get(st, "critic_score", 0)
        retry_count == Get(st, "retry_count", 0)
        sufficient_score == Get(st, "target_score", 6)
        max_retries == Get(st, "max_retries", 5)
    IN  IF score >= sufficient_score \/ retry_count >= max_retries
        THEN "good_summary"
        ELSE "poor_summary"

(***************************************************************************)
(* synthesize_final                                                        *)
(***************************************************************************)
\* synthesize_final whose except branch returns the state as it was
\* (sensitivity of C27)
synthesize_final_NoAnswerOnFailure(st, response, dt) ==
    IF response.ok
    THEN Put(Put(st, "final_answer", response.value),
             "processing_time",
             Put(Get(st, "processing_time", EmptyDict), "synthesis", dt))
    ELSE st

\* synthesize_final without its try/except: the failure of the language
\* call leaves the node and ends the run in the except branch of
\* analyze_stock_question (sensitivity of C20)
synthesize_final_Unguarded(st, response, dt) ==
    IF response.ok
    THEN Put(Put(st, "final_answer", response.value),
             "processing_time",
             Put(Get(st, "processing_time", EmptyDict), "synthesis", dt))
    ELSE [final_answer |-> <<"Analysis failed: ">> \o response.err,
          error |-> TRUE]

synthesize_final(st, response, dt) ==
    IF response.ok
    THEN Put(Put(st, "final_answer", response.value),
             "processing_time",
             Put(Get(st, "processing_time", EmptyDict), "synthesis", dt))
    ELSE Put(st, "final_answer", <<"Error generating final analysis">>)

(***************************************************************************)
(* retry_retrieval and its three strategies                                *)
(***************************************************************************)
enhancements ==
    << <<" financial results earnings revenue">>,
       <<" stock performance market cap valuation">>,
       <<" quarterly report Q1 Q2 Q3 Q4 annual">> >>

\* modify_search_terms whose index test is off by one: the third
\* sub-question already gets the generic suffix (sensitivity of C32)
modify_search_terms_OffByOne(st) ==
    LET original_questions == st.sub_questions
    IN  Put(st, "sub_questions",
            [i \in 1..Len(original_questions) |->
                IF i < Len(enhancements)
                THEN original_questions[i] \o enhancements[i]
                ELSE original_questions[i] \o <<" latest news update">>])

modify_search_terms(st) ==
    LET original_questions == st.sub_questions
    IN  Put(st, "sub_questions",
            [i \in 1..Len(original_questions) |->
                IF i - 1 < Len(enhancements)
                THEN original_questions[i] \o enhancements[i]
                ELSE original_questions[i] \o <<" latest news update">>])

broaden_search_scope(st) ==
    Put(st, "sub_questions",
        << st.user_input \o <<" news recent developments">>,
           st.user_input \o <<" financial performance overview">>,
           st.user_input \o <<" market analysis investor sentiment">> >>)

\* StrategyFor with the second boundary off by one (sensitivity of C8)
StrategyFor_Late(retry_count) ==
    IF retry_count < 3 THEN "refine"
    ELSE IF retry_count <= 6 THEN "modify_terms"
    ELSE "broaden"

\* the strategy the retry with this retry_count (before the increment) logs
StrategyFor(retry_count) ==
    IF retry_count < 3 THEN "refine"
    ELSE IF retry_count < 6 THEN "modify_terms"
    ELSE "broaden"

\* new_state after the strategy has run
ApplyStrategy(new_state, retry_count, response) ==
    CASE StrategyFor(retry_count) = "refine" ->
             plan_subquestions_refined(new_state, response)
      [] StrategyFor(retry_count) = "modify_terms" ->
             modify_search_terms(new_state)
      [] OTHER -> broaden_search_scope(new_state)

\* retry_retrieval without the increment of retry_count (sensitivity of C2)
retry_retrieval_NoIncrement(st, response, dt) ==
    LET retry_count == Get(st, "retry_count", 0)
        max_retries == Get(st, "max_retries", 5)
    IN  IF retry_count >= max_retries
        THEN Put(Put(st, "final_answer",
                     <<"Maximum retries (", ToString(max_retries),
                       ") reached. Analysis based on available information.">>),
                 "max_retries_reached", TRUE)
        ELSE LET new_state == ApplyStrategy(st, retry_count, response)
             IN  Put(new_state, "processing_time",
                     Put(Get(new_state, "processing_time", EmptyDict),
                         "retry_" \o ToString(retry_count + 1), dt))

retry_retrieval(st, response, dt) ==
    LET retry_count == Get(st, "retry_count", 0)
        max_retries == Get(st, "max_retries", 5)
    IN  IF retry_count >= max_retries
        THEN Put(Put(st, "final_answer",
                     <<"Maximum retries (", ToString(max_retries),
                       ") reached. Analysis based on available information.">>),
                 "max_retries_reached", TRUE)
        ELSE LET new_state ==
                     ApplyStrategy(Put(st, "retry_count", retry_count + 1),
                                   retry_count, response)
             IN  Put(new_state, "processing_time",
                     Put(Get(new_state, "processing_time", EmptyDict),
                         "retry_" \o ToString(retry_count + 1), dt))

(***************************************************************************)
(* The inputs of a run: the caller's arguments and what the two            *)
(* capabilities answer.                                                    *)
(***************************************************************************)
Question == <<"A", "A", "P", "L", "?">>
Purpose == <<"financial analysis">>

TargetScores == {0, 6}
MaxRetriesValues == (-1)..MaxRetriesCap

NL == <<"\n">>
Line1 == <<"1", ".", " ", "a">>
Line2 == <<"2", ".", " ", "b">>
Line3 == <<"3", ".", " ", "c">>
Line4 == <<"4", ".", " ", "d">>
Line5 == <<"5", ".", " ", "e">>

\* outputs of the language capability for the two planners, with 0, 1, 2,
\* 3, 4 and 5 lines that parse as sub-questions; PlanTextOdd has prose, a
\* blank line, an indented line, a number without text and a digit without
\* a period
PlanText0 == <<"n", "o">>
PlanText1 == Line1
PlanText2 == Line1 \o NL \o Line2
PlanText3 == Line1 \o NL \o Line2 \o NL \o Line3
PlanTextOdd ==
    <<"h", "i", ":">> \o NL \o NL \o Line1 \o NL \o <<" ">> \o Line2 \o NL
        \o <<"3", ".">> \o NL \o <<"4", " ", "d">> \o NL \o Line5 \o NL
PlanText5 ==
    Line1 \o NL \o Line2 \o NL \o Line3 \o NL \o Line4 \o NL \o Line5

LlmError == <<"llm unavailable">>

PlannerResponses ==
    { Returns(PlanText0), Returns(PlanText1), Returns(PlanText2),
      Returns(PlanText3), Returns(PlanTextOdd), Returns(PlanText5),
      Raises(LlmError) }

\* what a search returns: a text long enough to summarize, or a short one
GoodText == <<"r", "e", "v", "e", "n", "u", "e", " ", "u", "p", " ", "5", "%">>
ShortText == <<"n", "/", "a">>
SearchError == <<"search timeout">>

\* the behaviour of the search capability for one query: its outcome at the
\* first, second and third call
FoundAtOnce == [k \in 1..3 |-> Returns(StrVal(GoodText))]
FoundAtSecond ==
    [k \in 1..3 |-> IF k = 1 THEN Raises(SearchError) ELSE Returns(StrVal(GoodText))]
FoundLittle == [k \in 1..3 |-> Returns(StrVal(ShortText))]
NeverFound == [k \in 1..3 |-> Raises(SearchError)]

\* the behaviour for the first, second and third query of a batch
SearchBehaviours ==
    { <<FoundAtOnce, FoundAtOnce, FoundAtOnce>>,
      <<NeverFound, NeverFound, NeverFound>>,
      <<NeverFound, FoundAtSecond, FoundLittle>> }

\* whether the gather of a batch raises: fetch_with_retry absorbs every
\* Exception of the search capability, so no run of this specification
\* makes it raise
GatherRaises == {FALSE}

SummaryText == <<"u", "p">>

\* the language capability in the summarizer, for each entry of the batch
SummarizerResponses ==
    { [i \in 1..3 |-> Returns(SummaryText)],
      [i \in 1..3 |-> IF i = 2 THEN Raises(LlmError) ELSE Returns(SummaryText)],
      [i \in 1..3 |-> Raises(LlmError)] }

\* outputs of the language capability for the critic: "Score: 8" and a
\* second line, a lower-case score line with two numbers, a score above 10,
\* a score of 0, a score line without a digit followed by one with a
\* digit, and no score line
CriticText8 == <<"S", "c", "o", "r", "e", ":", " ", "8", "\n", "o", "k">>
CriticText2 == <<"s", "c", "o", "r", "e", ":", " ", "2", "/", "1", "0">>
CriticText15 == <<"S", "C", "O", "R", "E", ":", "1", "5">>
CriticText0 == <<" ", "S", "c", "o", "r", "e", ":", " ", "0", "\n">>
CriticTextNoDigit ==
    <<"S", "c", "o", "r", "e", ":", " ", "n", "/", "a", "\n",
      "S", "c", "o", "r", "e", ":", " ", "9">>
CriticTextNoLine == <<"f", "i", "n", "e">>

CriticResponses ==
    { Returns(CriticText8), Returns(CriticText2), Returns(CriticText15),
      Returns(CriticText0), Returns(CriticTextNoDigit),
      Returns(CriticTextNoLine), Raises(LlmError) }

FinalText == <<"r", "e", "p", "o", "r", "t">>

SynthesizerResponses == { Returns(FinalText), Raises(LlmError) }

(***************************************************************************)
(* analyze_stock_question and the graph of create_financial_analysis_graph *)
(***************************************************************************)
Nodes == {"planner", "retriever", "summarizer", "critic", "synthesizer", "retry"}

\* an initial_state that counts the first cycle as a retry (sensitivity of
\* C36)
analyze_stock_question_FromOne(question, purpose, target_score, max_retries) ==
    [user_input |-> question,
     purpose |-> purpose,
     retry_count |-> 1,
     target_score |-> target_score,
     max_retries |-> max_retries,
     processing_time |-> EmptyDict]

\* initial_state of analyze_stock_question
analyze_stock_question(question, purpose, target_score, max_retries) ==
    [user_input |-> question,
     purpose |-> purpose,
     retry_count |-> 0,
     target_score |-> target_score,
     max_retries |-> max_retries,
     processing_time |-> EmptyDict]

\* a conditional edge that sends a poor summary back to the planner
\* (sensitivity of C30)
ConditionalEdge_Replan(label) ==
    CASE label = "good_summary" -> "synthesizer"
      [] label = "poor_summary" -> "planner"

\* a conditional edge with its two targets exchanged (sensitivity of C34)
ConditionalEdge_Exchanged(label) ==
    CASE label = "good_summary" -> "retry"
      [] label = "poor_summary" -> "synthesizer"

\* the mapping of the conditional edge after the critic
ConditionalEdge(label) ==
    CASE label = "good_summary" -> "synthesizer"
      [] label = "poor_summary" -> "retry"

Ran(node) == executions' = [executions EXCEPT ![node] = @ + 1]

Init ==
    /\ pc = "planner"
    /\ \E target_score \in TargetScores, max_retries \in MaxRetriesValues :
           state = analyze_stock_question(Question, Purpose, target_score,
                                          max_retries)
    /\ executions = [n \in Nodes |-> 0]
    /\ strategy = "none"
    /\ llm_calls = {}
    /\ tasks = <<>>

\* Each node is an action over the answers its capability may give; the
\* specifications below choose the answers.
PlannerOn(responses) ==
    /\ pc = "planner"
    /\ \E response \in responses, dt \in ElapsedTimes :
           state' = plan_subquestions(state, response, dt)
    /\ pc' = "retriever"
    /\ Ran("planner")
    /\ llm_calls' = {0}
    /\ UNCHANGED <<strategy, tasks>>

RetrieverOn(behaviours, raises) ==
    /\ pc = "retriever"
    /\ \E search \in behaviours, unexpected \in raises,
          dt \in ElapsedTimes :
           state' = retrieve_each(state, search, unexpected, dt)
    /\ pc' = "summarizer"
    /\ Ran("retriever")
    /\ llm_calls' = {}
    /\ UNCHANGED <<strategy, tasks>>

SummarizerOn(responses) ==
    /\ pc = "summarizer"
    /\ \E llm \in responses, dt \in ElapsedTimes :
           /\ state' = summarize_chunks(state, llm, dt)
           /\ llm_calls' = SummarizerCalls(state, llm)
    /\ pc' = "critic"
    /\ Ran("summarizer")
    /\ UNCHANGED <<strategy, tasks>>

CriticOn(responses) ==
    /\ pc = "critic"
    /\ \E response \in responses, dt \in ElapsedTimes :
           state' = critic_node(state, response, dt)
    /\ pc' = ConditionalEdge(score_based_decision(state'))
    /\ Ran("critic")
    /\ llm_calls' = {0}
    /\ UNCHANGED <<strategy, tasks>>

SynthesizerOn(responses) ==
    /\ pc = "synthesizer"
    /\ \E response \in responses, dt \in ElapsedTimes :
           state' = synthesize_final(state, response, dt)
    /\ pc' = "done"
    /\ Ran("synthesizer")
    /\ llm_calls' = {0}
    /\ UNCHANGED <<strategy, tasks>>

RetryOn(responses) ==
    /\ pc = "retry"
    /\ \E response \in responses, dt \in ElapsedTimes :
           state' = retry_retrieval(state, response, dt)
    /\ strategy' =
           IF Get(state, "retry_count", 0) >= Get(state, "max_retries", 5)
           THEN strategy
           ELSE StrategyFor(Get(state, "retry_count", 0))
    /\ llm_calls' =
           IF Get(state, "retry_count", 0) < Get(state, "max_retries", 5)
              /\ StrategyFor(Get(state, "retry_count", 0)) = "refine"
           THEN {0}
           ELSE {}
    /\ pc' = "retriever"
    /\ Ran("retry")
    /\ UNCHANGED tasks

Planner == PlannerOn(PlannerResponses)

Retriever == RetrieverOn(SearchBehaviours, GatherRaises)

Summarizer == SummarizerOn(SummarizerResponses)

Critic == CriticOn(CriticResponses)

Synthesizer == SynthesizerOn(SynthesizerResponses)

Retry == RetryOn(PlannerResponses)

Next ==
    \/ Planner
    \/ Retriever
    \/ Summarizer
    \/ Critic
    \/ Synthesizer
    \/ Retry

Spec == Init /\ [][Next]_vars

\* the graph runs a node whenever one is due
FairSpec == Spec /\ WF_vars(Next)

(***************************************************************************)
(* The graph under failures that come from neither capability: the gather *)
(* of a batch may raise, and a node may raise an exception that it does   *)
(* not absorb, which ends graph.ainvoke and reaches the except branch of  *)
(* analyze_stock_question.                                                 *)
(***************************************************************************)
UnexpectedError == <<"unexpected failure">>

\* an entry point that lets the exception of graph.ainvoke through
\* (sensitivity of C19)
analyze_result_Propagates(outcome) == outcome

\* what analyze_stock_question does with the outcome of graph.ainvoke: it
\* returns in both cases
analyze_result(outcome) ==
    IF outcome.ok
    THEN Returns(outcome.value)
    ELSE Returns([final_answer |-> <<"Analysis failed: ">> \o outcome.err,
                  error |-> TRUE])

\* the node that is due raises; the graph stops and the entry point ends
NodeRaises ==
    /\ pc \in Nodes
    /\ LET ended == analyze_result(Raises(UnexpectedError))
       IN  IF ended.ok
           THEN pc' = "done" /\ state' = ended.value
           ELSE pc' = "raised" /\ state' = state
    /\ UNCHANGED <<executions, strategy, llm_calls, tasks>>

NextUnexpected ==
    \/ PlannerOn(PlannerResponses)
    \/ RetrieverOn(SearchBehaviours, BOOLEAN)
    \/ SummarizerOn(SummarizerResponses)
    \/ CriticOn(CriticResponses)
    \/ SynthesizerOn(SynthesizerResponses)
    \/ RetryOn(PlannerResponses)
    \/ NodeRaises

SpecUnexpected == Init /\ [][NextUnexpected]_vars

(***************************************************************************)
(* The same graph with the retriever at the grain of its tasks: the        *)
(* gather starts one task per query, the event loop runs the tasks in any  *)
(* order, and retrieve_each resumes when all of them have returned.  The   *)
(* other nodes get a few answers only.                                     *)
(***************************************************************************)
MaxConcurrentRetries == 1

\* what the search capability does at one call
CallOutcomes == { Returns(StrVal(GoodText)), Raises(SearchError) }

ConcurrentPlans == { Returns(PlanText3), Raises(LlmError) }
ConcurrentSummaries == { [i \in 1..3 |-> Returns(SummaryText)] }
ConcurrentCritiques == { Returns(CriticText8), Returns(CriticText2) }
ConcurrentFinals == { Returns(FinalText) }

InitConcurrent ==
    /\ pc = "planner"
    /\ \E max_retries \in 0..MaxConcurrentRetries :
           state = analyze_stock_question(Question, Purpose, 6, max_retries)
    /\ executions = [n \in Nodes |-> 0]
    /\ strategy = "none"
    /\ llm_calls = {}
    /\ tasks = <<>>

\* retrieve_each up to its await: one task per query
GatherStart ==
    /\ pc = "retriever"
    /\ tasks = <<>>
    /\ tasks' = [i \in 1..Len(state.sub_questions) |->
                     NewTask(state.sub_questions[i])]
    /\ UNCHANGED <<pc, state, executions, strategy, llm_calls>>

\* the search call of task i returns or raises
SearchCall(i) ==
    /\ tasks[i].status = "calling"
    /\ \E outcome \in CallOutcomes :
           tasks' = [tasks EXCEPT ![i] = TaskStep(@, outcome, FetchMaxRetries)]
    /\ UNCHANGED <<pc, state, executions, strategy, llm_calls>>

\* the sleep of task i ends
SleepEnds(i) ==
    /\ tasks[i].status = "sleeping"
    /\ tasks' = [tasks EXCEPT ![i] = TaskStep(@, None, FetchMaxRetries)]
    /\ UNCHANGED <<pc, state, executions, strategy, llm_calls>>

\* every task has returned: the gather delivers and retrieve_each returns
GatherJoin ==
    /\ pc = "retriever"
    /\ tasks # <<>>
    /\ GatherReady(tasks)
    /\ \E dt \in ElapsedTimes :
           state' = StoreResults(state, GatherResults(tasks), dt)
    /\ pc' = "summarizer"
    /\ Ran("retriever")
    /\ llm_calls' = {}
    /\ tasks' = <<>>
    /\ UNCHANGED strategy

NextConcurrent ==
    \/ PlannerOn(ConcurrentPlans)
    \/ GatherStart
    \/ \E i \in 1..Len(tasks) : SearchCall(i)
    \/ \E i \in 1..Len(tasks) : SleepEnds(i)
    \/ GatherJoin
    \/ SummarizerOn(ConcurrentSummaries)
    \/ CriticOn(ConcurrentCritiques)
    \/ SynthesizerOn(ConcurrentFinals)
    \/ RetryOn(ConcurrentPlans)

SpecConcurrent == InitConcurrent /\ [][NextConcurrent]_vars

(***************************************************************************)
(* The retries that modify the search terms: the retry node is due with   *)
(* retry_count 3 on a state whose sub_questions is any list of up to      *)
(* MaxQuestions questions (the planners give 1 or 3; the other lengths    *)
(* take modify_search_terms through its branch beyond the third           *)
(* question), every critique is poor, and the run goes on to its budget.  *)
(***************************************************************************)
MaxQuestions == 4

QuestionTexts == { <<"a">>, <<"b">> }

ModifyInputs == UNION { [1..n -> QuestionTexts] : n \in 0..MaxQuestions }

ModifyBudgets == 4..6

ModifySearch == { [i \in 1..MaxQuestions |-> FoundAtOnce] }

ModifySummaries == { [i \in 1..MaxQuestions |-> Returns(SummaryText)] }

\* the state after the fourth poor cycle, with these sub-questions
ModifyState(sub_questions, max_retries) ==
    LET initial_state ==
            [analyze_stock_question(Question, Purpose, 6, max_retries)
                EXCEPT !.retry_count = 3]
        planned == Put(initial_state, "sub_questions", sub_questions)
        retrieved ==
            retrieve_each(planned, [i \in 1..MaxQuestions |-> FoundAtOnce],
                          FALSE, 1)
        summarized ==
            summarize_chunks(retrieved,
                             [i \in 1..MaxQuestions |-> Returns(SummaryText)],
                             1)
    IN  critic_node(summarized, Returns(CriticText2), 1)

InitModify ==
    /\ pc = "retry"
    /\ \E sub_questions \in ModifyInputs, max_retries \in ModifyBudgets :
           state = ModifyState(sub_questions, max_retries)
    /\ executions = [n \in Nodes |->
                        CASE n = "planner" -> 1
                          [] n = "synthesizer" -> 0
                          [] n = "retry" -> 3
                          [] OTHER -> 4]
    /\ strategy = "refine"
    /\ llm_calls = {0}
    /\ tasks = <<>>

NextModify ==
    \/ RetryOn({Raises(LlmError)})
    \/ RetrieverOn(ModifySearch, GatherRaises)
    \/ SummarizerOn(ModifySummaries)
    \/ CriticOn({Returns(CriticText2)})
    \/ SynthesizerOn(ConcurrentFinals)

SpecModify == InitModify /\ [][NextModify]_vars

(***************************************************************************)
(* Reading the state of a run.                                             *)

(***************************************************************************)
(* The nodes on any state: the critic or the retry node is due on the     *)
(* state of some cycle, with any retry_count, max_retries and target_score *)
(* in it, whether or not a run of analyze_stock_question gets there; the   *)
(* graph goes on from that node.                                           *)
(***************************************************************************)
MaxStageRetries == 2

StageTargets == {0, 6, 11}
StageSearch == { <<FoundAtOnce, FoundAtOnce, FoundAtOnce>> }

\* the state of a cycle whose retriever and summarizer have run
StageState(retry_count, target_score, max_retries) ==
    LET initial_state ==
            [analyze_stock_question(Question, Purpose, target_score,
                                    max_retries)
                EXCEPT !.retry_count = retry_count]
        planned == plan_subquestions(initial_state, Returns(PlanText3), 1)
        retrieved ==
            retrieve_each(planned, <<FoundAtOnce, FoundAtOnce, FoundAtOnce>>,
                          FALSE, 1)
    IN  summarize_chunks(retrieved, [i \in 1..3 |-> Returns(SummaryText)], 1)

InitStages ==
    \E retry_count \in 0..MaxStageRetries, target_score \in StageTargets,
       max_retries \in (-1)..MaxStageRetries :
        /\ \/ /\ pc = "critic"
              /\ state = StageState(retry_count, target_score, max_retries)
              /\ llm_calls = {1, 2, 3}
           \/ /\ pc = "retry"
              /\ \E response \in CriticResponses :
                     state = critic_node(StageState(retry_count, target_score,
                                                    max_retries),
                                         response, 1)
              /\ llm_calls = {0}
        /\ executions =
               [n \in Nodes |->
                   CASE n = "planner" -> 1
                     [] n = "synthesizer" -> 0
                     [] n = "retry" -> retry_count
                     [] n = "critic" ->
                            IF pc = "critic" THEN retry_count
                            ELSE retry_count + 1
                     [] OTHER -> retry_count + 1]
        /\ strategy = IF retry_count = 0 THEN "none"
                      ELSE StrategyFor(retry_count - 1)
        /\ tasks = <<>>

NextStages ==
    \/ RetrieverOn(StageSearch, GatherRaises)
    \/ SummarizerOn(ConcurrentSummaries)
    \/ CriticOn(CriticResponses)
    \/ SynthesizerOn(ConcurrentFinals)
    \/ RetryOn(ConcurrentPlans)

SpecStages == InitStages /\ [][NextStages]_vars

\* what the critics of a run answer, cycle by cycle: more answers than a
\* run of this specification has cycles
CritiqueSequences ==
    [1..(MaxStageRetries + 3) -> {Returns(CriticText2), Returns(CriticText8)}]

\* the number of retriever executions from the cycle of st on, st being a
\* state on which the critic is due, when the critics answer critiques[1],
\* critiques[2], ...: the critic, the conditional edge and the retry node
\* of each cycle (the retriever and the summarizer write nothing these
\* read)
RECURSIVE CyclesFrom(_, _)
CyclesFrom(st, critiques) ==
    LET scored == critic_node(st, Head(critiques), 1)
    IN  IF score_based_decision(scored) = "good_summary" \/ Len(critiques) = 1
        THEN 1
        ELSE 1 + CyclesFrom(retry_retrieval(scored, Raises(LlmError), 1),
                            Tail(critiques))


(***************************************************************************)
(* extract_content_from_search_result on its own: a search result of one  *)
(* of the shapes the search capability may return is handed to the        *)
(* extractor.                                                              *)
(***************************************************************************)
\* a text of n characters
TextOf(n) == [i \in 1..n |-> "x"]

TextLengths == {0, 9, 400, 500, 600, 1000, 1001}

\* the items of a list result: two texts, a record with a content field,
\* a record without one, and a number
ResultItems ==
    { StrVal(TextOf(400)), StrVal(TextOf(600)),
      DictVal(<< <<"title", StrVal(TextOf(9))>>,
                 <<"content", StrVal(TextOf(600))>> >>),
      DictVal(<< <<"url", StrVal(TextOf(9))>> >>),
      NumVal(7) }

MaxItems == 3

ResultLists ==
    UNION { [1..n -> ResultItems] : n \in 0..MaxItems }
        \cup { [i \in 1..4 |-> StrVal(TextOf(400))] }

ExtractInputs ==
    { None, NumVal(7) }
        \cup { StrVal(TextOf(n)) : n \in TextLengths }
        \cup { ListVal(items) : items \in ResultLists }
        \cup { DictVal(<< <<"content", StrVal(TextOf(n))>> >>) :
                   n \in TextLengths }
        \cup { DictVal(<< <<"query", StrVal(TextOf(n))>> >>) :
                   n \in TextLengths }
        \cup { DictVal(<< <<"answer", None>>, <<"results", ListVal(items)>> >>) :
                   items \in [1..3 -> {StrVal(TextOf(400)), StrVal(TextOf(9))}] }
        \cup { DictVal(<< <<"summary", StrVal(<<>>)>>,
                          <<"results", StrVal(TextOf(1001))>> >>) }

InitExtract ==
    /\ pc = "extract"
    /\ \E result \in ExtractInputs : state = [result |-> result]
    /\ executions = [n \in Nodes |-> 0]
    /\ strategy = "none"
    /\ llm_calls = {}
    /\ tasks = <<>>

Extract ==
    /\ pc = "extract"
    /\ state' = [result |-> state.result,
                 content |-> extract_content_from_search_result(state.result)]
    /\ pc' = "extracted"
    /\ UNCHANGED <<executions, strategy, llm_calls, tasks>>

NextExtract == Extract

SpecExtract == InitExtract /\ [][NextExtract]_vars

(***************************************************************************)
RetryCount == state.retry_count
MaxRetries == state.max_retries
TargetScore == state.target_score
Scored == "critic_score" \in DOMAIN state
BelowTarget == Scored /\ state.critic_score < TargetScore
MaxRetriesReached == Get(state, "max_retries_reached", FALSE) = TRUE
Failed == Get(state, "error", FALSE) = TRUE
Timed(key) == key \in DOMAIN state.processing_time

\* the accept condition of the spec, read from a state
Accepts(st) ==
    st.critic_score >= st.target_score \/ st.retry_count >= st.max_retries

(***************************************************************************)
(* C1: at the critic the next node is the synthesizer if and only if      *)
(* critic_score >= target_score or retry_count >= max_retries; otherwise  *)
(* it is the retry node, and there is no third exit.                       *)
(***************************************************************************)
C1_DecisionIsTwoWay ==
    [][pc = "critic" =>
          \/ Accepts(state') /\ pc' = "synthesizer"
          \/ ~Accepts(state') /\ pc' = "retry"]_vars

\* a forced accept: the score is below the target and the budget is spent
C1_Witness ==
    /\ pc = "synthesizer"
    /\ BelowTarget
    /\ RetryCount = MaxRetries
    /\ executions["retry"] >= 1

(***************************************************************************)
(* C2: for every target_score, every max_retries >= 0 and every sequence  *)
(* of critic scores a run eventually reaches done, and the retriever is   *)
(* executed at most max_retries + 1 times.                                 *)
(***************************************************************************)
C2_TerminatesWithinBudget ==
    /\ <>(pc = "done")
    /\ [](MaxRetries >= 0 => executions["retriever"] <= MaxRetries + 1)

\* a run that used the whole budget of 3 retries against a score of 0
C2_Witness ==
    /\ pc = "done"
    /\ MaxRetries = 3
    /\ state.critic_score = 0
    /\ TargetScore = 6
    /\ executions["retriever"] = 4

(***************************************************************************)
(* C3: when every critique returns a score below target_score and         *)
(* max_retries = N >= 0, the run performs exactly N + 1 retrieval cycles  *)
(* and ends with retry_count = N.  A run that ends below the target had   *)
(* every earlier critique below the target too, since the first critique  *)
(* at or above it ends the run.                                            *)
(***************************************************************************)
C3_ExhaustedRunHasAllCycles ==
    (pc = "done" /\ MaxRetries >= 0 /\ BelowTarget) =>
        /\ executions["retriever"] = MaxRetries + 1
        /\ executions["summarizer"] = MaxRetries + 1
        /\ executions["critic"] = MaxRetries + 1
        /\ executions["retry"] = MaxRetries
        /\ RetryCount = MaxRetries

\* the scenario of the spec: max_retries = 5, 6 retrieval cycles
C3_Witness ==
    /\ pc = "done"
    /\ MaxRetries = 5
    /\ BelowTarget
    /\ executions["retriever"] = 6
    /\ RetryCount = 5

(***************************************************************************)
(* C4: whenever a run terminates because retry_count >= max_retries while *)
(* the last critic_score is below target_score, the final state returned  *)
(* to the caller has max_retries_reached = true.  Stated for the budgets   *)
(* max_retries >= 0 the claim names.                                       *)
(***************************************************************************)
C4_ExhaustionIsFlagged ==
    (pc = "done" /\ MaxRetries >= 0 /\ RetryCount >= MaxRetries /\ BelowTarget)
        => MaxRetriesReached

(***************************************************************************)
(* C5: if the first critique returns a score >= target_score, the run     *)
(* performs exactly one retrieval/summarize/critique cycle, never         *)
(* executes the retry node, and ends with retry_count = 0,                *)
(* max_retries_reached not true and error not true.  While the critic has *)
(* run once, critic_score is the score of the first critique.              *)
(***************************************************************************)
C5_FirstPassIsOneCycle ==
    (executions["critic"] = 1 /\ state.critic_score >= TargetScore) =>
        /\ pc \in {"synthesizer", "done"}
        /\ executions["retriever"] = 1
        /\ executions["summarizer"] = 1
        /\ executions["retry"] = 0
        /\ RetryCount = 0
        /\ ~MaxRetriesReached
        /\ ~Failed
        /\ (pc = "done" => executions["synthesizer"] = 1)

\* the scenario of the spec: the critic answers 8, max_retries = 5
C5_Witness ==
    /\ pc = "done"
    /\ executions["critic"] = 1
    /\ state.critic_score = 8
    /\ TargetScore = 6
    /\ MaxRetries = 5

(***************************************************************************)
(* C6: with max_retries = 0, for every critic score and target_score,     *)
(* the retry node is never executed and exactly one retrieval cycle       *)
(* occurs: the run goes from the first critique to the synthesizer.       *)
(***************************************************************************)
C6_ZeroRetriesDisablesRetry ==
    MaxRetries = 0 =>
        /\ executions["retry"] = 0
        /\ pc # "retry"
        /\ executions["retriever"] <= 1
        /\ (executions["critic"] >= 1 =>
                pc \in {"synthesizer", "done"} /\ executions["retriever"] = 1)

\* a score below the target is accepted at once
C6_Witness ==
    /\ MaxRetries = 0
    /\ pc = "synthesizer"
    /\ BelowTarget
    /\ executions["critic"] = 1

(***************************************************************************)
(* C7: with target_score = 0, for every output of the language capability *)
(* in the critic (any score line, no score line, a failed call) and every *)
(* max_retries, the first critique is accepted: the decision after it is  *)
(* the synthesizer and no retry occurs.                                    *)
(***************************************************************************)
C7_ZeroTargetAlwaysPasses ==
    TargetScore = 0 =>
        /\ executions["retry"] = 0
        /\ pc # "retry"
        /\ executions["critic"] <= 1
        /\ (executions["critic"] = 1 => pc \in {"synthesizer", "done"})

\* the lowest score the critic can extract, 0, with retries left
C7_Witness ==
    /\ TargetScore = 0
    /\ pc = "synthesizer"
    /\ state.critic_score = 0
    /\ MaxRetries >= 1

(***************************************************************************)
(* C8: in the retry node the strategy is determined by the value n of     *)
(* retry_count after the increment: n in {1,2,3} runs the refine planner, *)
(* n in {4,5,6} modify-search-terms, n >= 7 broaden-scope.                 *)
(***************************************************************************)
C8_StrategyByRetryCount ==
    [][pc = "retry" =>
          LET n == state'.retry_count
          IN  /\ n = RetryCount + 1
              /\ n \in 1..3 => strategy' = "refine"
              /\ n \in 4..6 =>
                     /\ strategy' = "modify_terms"
                     /\ state'.sub_questions = modify_search_terms(state).sub_questions
              /\ n >= 7 =>
                     /\ strategy' = "broaden"
                     /\ state'.sub_questions = broaden_search_scope(state).sub_questions]_vars

\* the seventh retry has broadened the scope
C8_Witness ==
    /\ pc = "retriever"
    /\ RetryCount = 7
    /\ strategy = "broaden"

(***************************************************************************)
(* C9: in every reachable state after the planner has run (and after each *)
(* later retry), sub_questions has exactly 3 elements, for every output   *)
(* of the language capability and also when the language call fails.      *)
(***************************************************************************)
C9_AlwaysThreeSubQuestions ==
    executions["planner"] >= 1 => Len(state.sub_questions) = 3

(***************************************************************************)
(* C9 as amended: after a planner whose language call returned (the       *)
(* "planning" time is recorded exactly then), sub_questions has exactly 3 *)
(* elements for every output, there and after each later retry; after a   *)
(* planner whose language call failed it has exactly 1 element until a    *)
(* retry replaces it, and then 3; it never has another length.             *)
(***************************************************************************)
C9_ThreeSubQuestionsUnlessPlannerFailed ==
    executions["planner"] >= 1 =>
        /\ Len(state.sub_questions) \in {1, 3}
        /\ Timed("planning") => Len(state.sub_questions) = 3
        /\ strategy = "broaden" => Len(state.sub_questions) = 3
        /\ (~Timed("planning") /\ executions["retry"] = 0) =>
               Len(state.sub_questions) = 1

\* four parsed lines, truncated to three
C9_Witness ==
    /\ pc = "retriever"
    /\ executions["retry"] = 0
    /\ Timed("planning")
    /\ state.sub_questions = << <<"a">>, <<"b">>, <<"4", " ", "d">> >>

(***************************************************************************)
(* C10: when the language call of the planner fails, the planner returns  *)
(* sub_questions equal to the one-element list holding the original       *)
(* question, and the run continues through retrieval, summarizing,        *)
(* critiquing and synthesis with that shorter list without raising.       *)
(***************************************************************************)
PlannerFailed == executions["planner"] = 1 /\ ~Timed("planning")

FirstCycle == executions["retry"] = 0

C10_PlannerFailureDegrades ==
    /\ [](PlannerFailed =>
            /\ ~Failed
            /\ FirstCycle => state.sub_questions = <<state.user_input>>
            /\ (FirstCycle /\ executions["retriever"] = 1) =>
                   /\ Len(state.search_results) = 1
                   /\ state.search_results[1].question = state.user_input
            /\ (FirstCycle /\ executions["summarizer"] = 1) =>
                   Len(state.summarized_chunks) = 1
            /\ pc = "done" =>
                   /\ executions["synthesizer"] = 1
                   /\ "final_answer" \in DOMAIN state)
    /\ (PlannerFailed ~> (pc = "done" /\ ~Failed))

\* a run on the one-element list that was accepted in its first cycle
C10_Witness ==
    /\ PlannerFailed
    /\ pc = "done"
    /\ FirstCycle
    /\ Len(state.summarized_chunks) = 1
    /\ state.sub_questions = <<state.user_input>>

TaskIsWellBehaved(task) ==
    /\ task.calls <= FetchMaxRetries + 1
    /\ task.failures <= task.calls
    /\ task.status = "sleeping" =>
           /\ task.attempt < FetchMaxRetries
           /\ task.slept = RetryDelay * task.calls
    /\ task.status = "calling" => task.slept = RetryDelay * task.calls
    /\ task.status = "done" =>
           /\ task.slept = RetryDelay * (task.calls - 1)
           /\ "error" \in DOMAIN task.entry <=>
                  task.failures = FetchMaxRetries + 1
           /\ "error" \notin DOMAIN task.entry =>
                  /\ task.failures = task.calls - 1
                  /\ task.entry.attempt = task.calls
                  /\ task.entry.result # None

C12_BoundedAttempts ==
    /\ [](\A i \in 1..Len(tasks) : TaskIsWellBehaved(tasks[i]))
    /\ [][\A i \in 1..Len(tasks) :
              (tasks[i].status = "done" /\ tasks' # <<>>) =>
                  tasks'[i] = tasks[i]]_vars

\* one task has returned an error entry after three calls and two sleeps,
\* another a content entry after one failed call and one sleep, and the
\* third is still sleeping
C12_Witness ==
    /\ Len(tasks) = 3
    /\ \E i, j, k \in 1..3 :
           /\ tasks[i].status = "done"
           /\ "error" \in DOMAIN tasks[i].entry
           /\ tasks[i].calls = 3
           /\ tasks[i].slept = 2 * RetryDelay
           /\ tasks[j].status = "done"
           /\ "error" \notin DOMAIN tasks[j].entry
           /\ tasks[j].calls = 2
           /\ tasks[j].slept = RetryDelay
           /\ tasks[k].status = "sleeping"

(***************************************************************************)
(* C13: when the search fails at every attempt for every sub-question of  *)
(* a cycle, every summary of that cycle is the "Unable to retrieve        *)
(* information" placeholder of its sub-question; the run still reaches    *)
(* the synthesizer and ends with a non-empty final_answer, and error is   *)
(* not set.                                                                *)
(***************************************************************************)
\* the summaries in the state are those of the results in the state
Summarized ==
    /\ executions["summarizer"] >= 1
    /\ executions["summarizer"] = executions["retriever"]

AllSearchesFailed ==
    /\ state.search_results # <<>>
    /\ \A i \in 1..Len(state.search_results) :
           "error" \in DOMAIN state.search_results[i]

IsUnablePlaceholder(summary, chunk) ==
    /\ Len(summary) >= 1 + Len(chunk.question)
    /\ summary[1] = "Unable to retrieve information for: "
    /\ SubSeq(summary, 2, 1 + Len(chunk.question)) = chunk.question

BatchFailureStep ==
    /\ pc = "retriever"
    /\ \E search \in SearchBehaviours, dt \in ElapsedTimes :
           state' = retrieve_each(state, search, TRUE, dt)

C14_BatchFailureAbsorbed ==
    /\ [][BatchFailureStep =>
            /\ pc' = "summarizer"
            /\ "search_results" \in DOMAIN state'
            /\ state'.search_results = <<>>
            /\ \A key \in DOMAIN state \ {"search_results"} :
                   key \in DOMAIN state' /\ state'[key] = state[key]
            /\ ~Failed']_vars
    /\ []((~Failed /\ pc = "critic" /\ state.search_results = <<>>) =>
             state.summarized_chunks = <<>>)

\* a run that ended normally after a cycle whose batch failed as a whole
C14_Witness ==
    /\ pc = "done"
    /\ ~Failed
    /\ executions["synthesizer"] = 1
    /\ state.search_results = <<>>
    /\ state.summarized_chunks = <<>>
    /\ "final_answer" \in DOMAIN state

(***************************************************************************)
(* C19: an exception that a node raises and no stage absorbs is caught by *)
(* the entry point: the run ends with a result whose error is true and    *)
(* whose final_answer is the fixed failure message followed by the text   *)
(* of the exception; the entry point never raises to its caller.           *)
(***************************************************************************)
C19_EntryPointCatches ==
    /\ [](pc # "raised")
    /\ [][(pc \in Nodes /\ executions' = executions /\ pc' # pc) =>
            /\ pc' = "done"
            /\ state' = [final_answer |->
                             <<"Analysis failed: ">> \o UnexpectedError,
                         error |-> TRUE]]_vars
    /\ [](Failed =>
            /\ pc = "done"
            /\ state.final_answer[1] = "Analysis failed: "
            /\ DOMAIN state = {"final_answer", "error"})

\* the summarizer of a second cycle raised
C19_Witness ==
    /\ pc = "done"
    /\ Failed
    /\ executions["retriever"] = 2
    /\ executions["summarizer"] = 1
    /\ state.final_answer = <<"Analysis failed: ", "unexpected failure">>

(***************************************************************************)
(* C15: after every summarizer stage summarized_chunks has as many        *)
(* entries as search_results and the i-th summary is derived from the     *)
(* i-th result entry; a failure of the language capability on one entry   *)
(* replaces only that entry's summary by the "Error processing"           *)
(* placeholder, the other entries are still summarized, and the stage     *)
(* does not fail.                                                          *)
(***************************************************************************)
SummaryPrefixes ==
    {"Unable to retrieve information for: ",
     "No relevant information found for: ", "Q: ", "Error processing: "}

\* the summary is of one of the four forms and names the entry's question
IsDerivedFrom(summary, chunk) ==
    /\ Len(summary) >= 1 + Len(chunk.question)
    /\ summary[1] \in SummaryPrefixes
    /\ SubSeq(summary, 2, 1 + Len(chunk.question)) = chunk.question
    /\ "error" \in DOMAIN chunk <=>
           summary[1] = "Unable to retrieve information for: "

C15_OneSummaryPerEntry ==
    /\ [](Summarized =>
            /\ Len(state.summarized_chunks) = Len(state.search_results)
            /\ \A i \in 1..Len(state.search_results) :
                   IsDerivedFrom(state.summarized_chunks[i],
                                 state.search_results[i])
            /\ ~Failed)
    /\ [][\A llm \in SummarizerResponses :
              (/\ pc = "summarizer"
               /\ state' = summarize_chunks(state, llm, 1)
               /\ llm_calls' = SummarizerCalls(state, llm)) =>
                  /\ pc' = "critic"
                  /\ \A i \in llm_calls' :
                         state'.summarized_chunks[i] =
                             IF llm[i].ok
                             THEN <<"Q: ">> \o state.search_results[i].question
                                      \o <<"\n", "A: ">> \o llm[i].value
                             ELSE <<"Error processing: ">>
                                      \o state.search_results[i].question]_vars

\* the language capability failed on the second of three entries only
C15_Witness ==
    /\ pc = "critic"
    /\ Len(state.search_results) = 3
    /\ llm_calls = {1, 2, 3}
    /\ state.summarized_chunks[1][1] = "Q: "
    /\ state.summarized_chunks[2] =
           <<"Error processing: ">> \o state.search_results[2].question
    /\ state.summarized_chunks[3][1] = "Q: "

(***************************************************************************)
(* C16: for every result entry that carries an error the summarizer emits *)
(* the "Unable to retrieve" placeholder and does not invoke the language  *)
(* capability for that entry; a summarizer stage invokes the language     *)
(* capability at most once per entry without an error.                     *)
(***************************************************************************)
EntriesWithError ==
    {i \in 1..Len(state.search_results) :
        "error" \in DOMAIN state.search_results[i]}

C16_NoCallForErrorEntries ==
    pc = "critic" =>
        /\ \A i \in EntriesWithError :
               /\ state.summarized_chunks[i] =
                      <<"Unable to retrieve information for: ">>
                          \o state.search_results[i].question
                          \o <<" (Error: ">> \o state.search_results[i].error
                          \o <<")">>
               /\ i \notin llm_calls
        /\ llm_calls \subseteq (1..Len(state.search_results)) \ EntriesWithError
        /\ Cardinality(llm_calls) <=
               Len(state.search_results) - Cardinality(EntriesWithError)

\* of three entries the first carries an error and the third has too
\* little content: one invocation
C16_Witness ==
    /\ pc = "critic"
    /\ Len(state.search_results) = 3
    /\ EntriesWithError = {1}
    /\ llm_calls = {2}
    /\ state.summarized_chunks[3][1] = "No relevant information found for: "

(***************************************************************************)
(* C17: in every reachable state where critic_score has been set, it is   *)
(* an integer between 1 and 10, whatever text the language capability     *)
(* returned.  The code caps the parsed number at 10 and has no lower      *)
(* limit: the output "Score: 0" sets critic_score to 0.                    *)
(***************************************************************************)
C17_ScoreInRange == Scored => state.critic_score \in 1..10

(***************************************************************************)
(* C18 as stated: in the critic stage, when the output has no line that   *)
(* starts with "score:", when the score line has no digit, and when the   *)
(* language call fails, critic_score is set to 6 and critic_feedback is   *)
(* set to a feedback placeholder.  The code keeps the output as the       *)
(* feedback in the first two cases.                                        *)
(***************************************************************************)
CriticDefaultCases ==
    { Returns(CriticTextNoLine), Returns(CriticTextNoDigit), Raises(LlmError) }

CriticStepOn(response) ==
    /\ pc = "critic"
    /\ \E dt \in ElapsedTimes : state' = critic_node(state, response, dt)

C18_DefaultScoreAndPlaceholder ==
    [][\A response \in CriticDefaultCases :
           CriticStepOn(response) =>
               /\ state'.critic_score = 6
               /\ state'.critic_feedback = <<"Error in evaluation">>]_vars

(***************************************************************************)
(* C18 as amended: in each of the three cases critic_score is set to 6;   *)
(* critic_feedback is the placeholder "Error in evaluation" when the      *)
(* language call fails, and the output of the language capability,        *)
(* stripped, in the other two cases.                                       *)
(***************************************************************************)
C18_DefaultScoreKeepsOutput ==
    [][\A response \in CriticDefaultCases :
           CriticStepOn(response) =>
               /\ state'.critic_score = 6
               /\ state'.critic_feedback =
                      IF response.ok
                      THEN Strip(response.value)
                      ELSE <<"Error in evaluation">>]_vars

\* the critic got an output whose first score line has no digit
C18_Witness ==
    /\ Scored
    /\ executions["critic"] = 1
    /\ state.critic_score = 6
    /\ state.critic_feedback = CriticTextNoDigit

(***************************************************************************)
(* C20: a failure of the language capability in the planner, the refine   *)
(* planner, the summarizer, the critic or the synthesizer is absorbed by  *)
(* that stage: whichever of these calls fail, the run still reaches done  *)
(* through the synthesizer, with a final_answer, and error is never set.  *)
(***************************************************************************)
C20_LlmFailuresAbsorbed ==
    /\ [](~Failed)
    /\ [](pc = "done" =>
            /\ executions["synthesizer"] = 1
            /\ "final_answer" \in DOMAIN state)
    /\ [][pc' = "done" => pc = "synthesizer"]_vars
    /\ <>(pc = "done" /\ ~Failed)

\* a run in which the planner, a refine planner, the summarizer, the
\* critic and the synthesizer all had a failing call
C20_Witness ==
    /\ pc = "done"
    /\ ~Timed("planning")
    /\ executions["retry"] >= 1
    /\ strategy = "refine"
    /\ state.sub_questions = <<state.user_input>>
    /\ state.summarized_chunks =
           << <<"Error processing: ">> \o state.user_input >>
    /\ state.critic_feedback = <<"Error in evaluation">>
    /\ state.final_answer = <<"Error generating final analysis">>

(***************************************************************************)
(* C21: processing_time is append-only with one entry per stage           *)
(* execution: the entry that an execution of the retriever, the           *)
(* summarizer or the retry stage records is a new one, so no execution    *)
(* overwrites the entry of an earlier execution and the timings of every  *)
(* cycle are still present.  The code records the retriever, the          *)
(* summarizer and the critic under one fixed key each, which the next     *)
(* cycle overwrites.                                                       *)
(***************************************************************************)
TimingEntries(st) == Cardinality(DOMAIN st.processing_time)

C21_TimingsAppendOnly ==
    [][(pc \in {"retriever", "summarizer", "retry"} /\ pc' # pc) =>
           TimingEntries(state') = TimingEntries(state) + 1]_vars

TargetRange == (-1)..12

DecisionWithTarget(t) == score_based_decision(Put(state, "target_score", t))

C23_MonotonicInTarget ==
    Scored =>
        \A t1 \in TargetRange, t2 \in TargetRange :
            (t1 <= t2 /\ DecisionWithTarget(t2) = "good_summary") =>
                DecisionWithTarget(t1) = "good_summary"

\* after a retry the critic has sent a state with budget left to the retry
\* node again, which a lower target would have sent to the synthesizer
C23_Witness ==
    /\ Scored
    /\ pc = "retry"
    /\ Timed("retry_1")
    /\ RetryCount < MaxRetries
    /\ score_based_decision(state) = "poor_summary"
    /\ \E t \in TargetRange :
           t < TargetScore /\ DecisionWithTarget(t) = "good_summary"

(***************************************************************************)
(* C24: of two runs with the same question, the same target_score and     *)
(* the same critic scores cycle by cycle, the run with the larger         *)
(* max_retries has at least as many retrieval cycles as the other.         *)
(***************************************************************************)
CyclesWithBudget(max_retries, critiques) ==
    CyclesFrom(Put(state, "max_retries", max_retries), critiques)

C24_MonotonicInBudget ==
    pc = "critic" =>
        \A critiques \in CritiqueSequences :
            \A m2 \in MaxRetries..(MaxStageRetries + 1) :
                CyclesWithBudget(m2, critiques)
                    >= CyclesWithBudget(MaxRetries, critiques)

\* in the second cycle of a run: under some critic scores one more retry
\* allowed gives one more cycle
C24_Witness ==
    /\ pc = "critic"
    /\ Timed("retry_1")
    /\ \E critiques \in CritiqueSequences :
           CyclesWithBudget(MaxRetries + 1, critiques)
               = CyclesWithBudget(MaxRetries, critiques) + 1

(***************************************************************************)
(* C25 as stated: every time the control decision is evaluated,           *)
(* retry_count <= max_retries holds, for every integer max_retries the    *)
(* caller supplies, and the run is forced to the synthesizer exactly when *)
(* retry_count has reached max_retries.  With a negative max_retries the  *)
(* first decision is evaluated with retry_count = 0 > max_retries.         *)
(***************************************************************************)
Decided == pc \in {"synthesizer", "retry"}

C25_CountWithinBudget ==
    Decided =>
        /\ RetryCount <= MaxRetries
        /\ RetryCount = MaxRetries => pc = "synthesizer"
        /\ (pc = "synthesizer" /\ BelowTarget) => RetryCount = MaxRetries

(***************************************************************************)
(* C25 as amended: for every max_retries >= 0, retry_count <= max_retries *)
(* holds at every evaluation of the control decision and a run below its  *)
(* target is sent to the synthesizer exactly when retry_count equals      *)
(* max_retries; for a negative max_retries the only decision of the run   *)
(* is evaluated with retry_count = 0 > max_retries and sends the run to   *)
(* the synthesizer.                                                        *)
(***************************************************************************)
C25_CountWithinNonNegativeBudget ==
    Decided =>
        /\ MaxRetries >= 0 =>
               /\ RetryCount <= MaxRetries
               /\ RetryCount = MaxRetries => pc = "synthesizer"
               /\ (pc = "synthesizer" /\ BelowTarget) =>
                      RetryCount = MaxRetries
        /\ MaxRetries < 0 =>
               /\ RetryCount = 0
               /\ executions["critic"] = 1
               /\ pc = "synthesizer"

\* a run with max_retries = -1 whose first critique is below the target
C25_Witness ==
    /\ pc = "synthesizer"
    /\ MaxRetries = -1
    /\ RetryCount = 0
    /\ BelowTarget

(***************************************************************************)
(* C26: retry_count starts at 0, each execution of the retry stage that   *)
(* starts a new cycle adds exactly 1 to it, no other stage changes it,    *)
(* and it never decreases or is reset during a run.                        *)
(***************************************************************************)
C26_RetryCountStepsByOne ==
    /\ [](pc = "planner" => RetryCount = 0)
    /\ [](RetryCount >= 0)
    /\ [][state'.retry_count =
              IF pc = "retry" THEN state.retry_count + 1
              ELSE state.retry_count]_vars

\* the third retry of a run has just been executed
C26_Witness ==
    /\ pc = "retriever"
    /\ executions["retry"] = 3
    /\ RetryCount = 3
    /\ Timed("retry_3")

(***************************************************************************)
(* C27: final_answer is absent in every state before a terminal           *)
(* transition (while planning, retrieving, summarizing, critiquing and    *)
(* in any retry that starts a new cycle) and present in every result      *)
(* that is returned to the caller, that of a failed run included.          *)
(***************************************************************************)
C27_AnswerOnlyInResults ==
    /\ pc # "done" => "final_answer" \notin DOMAIN state
    /\ pc = "done" => "final_answer" \in DOMAIN state

\* the result of a run of two cycles whose synthesizer call failed
C27_Witness ==
    /\ pc = "done"
    /\ ~Failed
    /\ executions["retry"] = 1
    /\ executions["synthesizer"] = 1
    /\ state.final_answer = <<"Error generating final analysis">>

(***************************************************************************)
(* C28: for every shape of its input (null, a text, a sequence of records *)
(* or texts, a mapping, a mapping holding a results list, any other       *)
(* value) the content extractor returns a string of at most 1000          *)
(* characters and never fails, and it returns the empty string for null.  *)
(* The code does not cut what it joins from the items of a sequence.       *)
(***************************************************************************)
C28_AtMost1000Characters ==
    pc = "extracted" =>
        /\ Len(state.content) <= 1000
        /\ state.result = None => state.content = <<>>

(***************************************************************************)
(* C29: retrieval is a join-all: in every cycle the summarizer starts     *)
(* only after every search task of that cycle has returned, with a        *)
(* content entry or with the error entry of its exhausted retries, and no *)
(* stage other than the retriever runs while a search task is pending.    *)
(***************************************************************************)
TaskPending == \E i \in 1..Len(tasks) : tasks[i].status # "done"

C29_JoinAll ==
    /\ [](tasks # <<>> => pc = "retriever")
    /\ [][(pc = "retriever" /\ pc' = "summarizer") =>
              /\ Len(tasks) = Len(state.sub_questions)
              /\ ~TaskPending]_vars
    /\ [][TaskPending =>
              /\ pc' = "retriever"
              /\ state' = state
              /\ executions' = executions]_vars

\* in the second cycle two tasks have returned, one of them with an error,
\* and the retriever still waits for the third
C29_Witness ==
    /\ pc = "retriever"
    /\ executions["retriever"] = 1
    /\ Len(tasks) = 3
    /\ \E i, j, k \in 1..3 :
           /\ tasks[i].status = "done"
           /\ "error" \in DOMAIN tasks[i].entry
           /\ tasks[j].status = "done"
           /\ "error" \notin DOMAIN tasks[j].entry
           /\ tasks[k].status = "sleeping"

(***************************************************************************)
(* C30: the stage order follows the fixed graph: the planner runs exactly *)
(* once and first; every retriever execution is immediately followed by   *)
(* the summarizer and then the critic; every retry execution is           *)
(* immediately followed by a retriever execution; the synthesizer runs at *)
(* most once, only directly after a critic execution, and is the last     *)
(* stage before done.                                                     *)
(***************************************************************************)
StageRan(node) ==
    /\ pc = node
    /\ executions' = [executions EXCEPT ![node] = @ + 1]

\* the stage a step executes is the one the graph had scheduled
OneStagePerStep == \E node \in Nodes : StageRan(node)

C30_FixedStageOrder ==
    /\ [](executions["planner"] = IF pc = "planner" THEN 0 ELSE 1)
    /\ [](pc = "planner" => \A node \in Nodes : executions[node] = 0)
    /\ [](executions["synthesizer"] = IF pc = "done" THEN 1 ELSE 0)
    /\ [][OneStagePerStep]_vars
    /\ [][StageRan("planner") => pc' = "retriever"]_vars
    /\ [][StageRan("retriever") => pc' = "summarizer"]_vars
    /\ [][StageRan("summarizer") => pc' = "critic"]_vars
    /\ [][StageRan("critic") => pc' \in {"synthesizer", "retry"}]_vars
    /\ [][StageRan("retry") => pc' = "retriever"]_vars
    /\ [][StageRan("synthesizer") => pc' = "done"]_vars
    /\ [][pc' = "synthesizer" => StageRan("critic")]_vars
    /\ [][pc' = "done" => StageRan("synthesizer")]_vars

\* a run that went through two retries before it synthesized
C30_Witness ==
    /\ pc = "done"
    /\ executions = [planner |-> 1, retriever |-> 3, summarizer |-> 3,
                     critic |-> 3, retry |-> 2, synthesizer |-> 1]

(***************************************************************************)
(* C31: every stage leaves the question, purpose, target_score and        *)
(* max_retries unchanged and changes only its own fields: the retriever,  *)
(* with all of its concurrent search tasks, only search_results and       *)
(* processing_time, the summarizer only summaries and processing_time,    *)
(* the critic only critic_score, critic_feedback and processing_time, and *)
(* a retry that starts a new cycle only retry_count, sub_questions and    *)
(* processing_time.  In the source the question is the key user_input     *)
(* and the summaries are the key summarized_chunks.                       *)
(***************************************************************************)
CallerFields == {"user_input", "purpose", "target_score", "max_retries"}

\* the step changes no field of the state outside own, and removes none
ChangesOnly(own) ==
    /\ DOMAIN state \subseteq DOMAIN state'
    /\ \A k \in DOMAIN state' \ own :
           k \in DOMAIN state /\ state'[k] = state[k]

\* a step of the search tasks of the retriever, before the gather returns
TaskStepTaken == tasks' # tasks /\ executions' = executions

C31_StagesChangeOwnFields ==
    /\ [][\A k \in CallerFields :
              k \in DOMAIN state' /\ state'[k] = state[k]]_vars
    /\ [][TaskStepTaken => state' = state]_vars
    /\ [][StageRan("retriever") =>
              ChangesOnly({"search_results", "processing_time"})]_vars
    /\ [][StageRan("summarizer") =>
              ChangesOnly({"summarized_chunks", "processing_time"})]_vars
    /\ [][StageRan("critic") =>
              ChangesOnly({"critic_score", "critic_feedback",
                           "processing_time"})]_vars
    /\ [][(StageRan("retry") /\ state.retry_count < state.max_retries) =>
              ChangesOnly({"retry_count", "sub_questions",
                           "processing_time"})]_vars

\* the retriever of the second cycle has returned, one of its tasks with an
\* error entry, and the summaries and the critique of the first cycle are
\* still in the state
C31_Witness ==
    /\ pc = "summarizer"
    /\ executions["retriever"] = 2
    /\ state.retry_count = 1
    /\ \E i \in 1..Len(state.search_results) :
           "error" \in DOMAIN state.search_results[i]
    /\ "summarized_chunks" \in DOMAIN state
    /\ state.summarized_chunks # <<>>
    /\ "critic_score" \in DOMAIN state

(***************************************************************************)
(* C32: the modify-search-terms strategy keeps the number and order of    *)
(* sub_questions: the i-th new sub-question is the i-th previous one      *)
(* followed by the i-th fixed suffix for i <= 3 and by the generic        *)
(* "latest news update" suffix for i > 3; applied in consecutive retries  *)
(* (retry_count 4, 5, 6) the suffixes accumulate on the same              *)
(* sub-questions.                                                         *)
(***************************************************************************)
SuffixAt(i) ==
    CASE i = 1 -> <<" financial results earnings revenue">>
      [] i = 2 -> <<" stock performance market cap valuation">>
      [] i = 3 -> <<" quarterly report Q1 Q2 Q3 Q4 annual">>
      [] OTHER -> <<" latest news update">>

RECURSIVE Repeated(_, _)
\* the text s, n times over
Repeated(s, n) == IF n = 0 THEN <<>> ELSE s \o Repeated(s, n - 1)

C32_SuffixesByPosition ==
    /\ [][(StageRan("retry") /\ state'.retry_count \in 4..6) =>
              /\ strategy' = "modify_terms"
              /\ Len(state'.sub_questions) = Len(state.sub_questions)
              /\ \A i \in 1..Len(state.sub_questions) :
                     state'.sub_questions[i] =
                         state.sub_questions[i] \o SuffixAt(i)]_vars
    /\ [](\E original \in ModifyInputs :
              state.sub_questions =
                  [i \in 1..Len(original) |->
                      original[i] \o
                          Repeated(SuffixAt(i), state.retry_count - 3)])

\* after the retries 4, 5 and 6 on four sub-questions: the first carries
\* its own suffix three times and the fourth the generic one three times
C32_Witness ==
    /\ state.retry_count = 6
    /\ executions["retry"] = 6
    /\ Len(state.sub_questions) = 4
    /\ state.sub_questions[1] =
           <<"a", " financial results earnings revenue",
             " financial results earnings revenue",
             " financial results earnings revenue">>
    /\ state.sub_questions[4] =
           <<"b", " latest news update", " latest news update",
             " latest news update">>

(***************************************************************************)
(* C33: in every run driven by the compiled graph the retry stage is only *)
(* entered with retry_count < max_retries: the ceiling branch of          *)
(* retry_retrieval, the only place that sets max_retries_reached, is      *)
(* unreachable, so max_retries_reached is true in no reachable state.     *)
(***************************************************************************)
C33_CeilingBranchUnreachable ==
    /\ pc = "retry" =>
           Get(state, "retry_count", 0) < Get(state, "max_retries", 5)
    /\ "max_retries_reached" \notin DOMAIN state
    /\ ~MaxRetriesReached

\* a run that used up its budget of two retries below the target and
\* finished without the flag
C33_Witness ==
    /\ pc = "done"
    /\ MaxRetries = 2
    /\ RetryCount = 2
    /\ executions["retry"] = 2
    /\ BelowTarget
    /\ "max_retries_reached" \notin DOMAIN state

(***************************************************************************)
(* C34: whenever the synthesizer executes, critic_score >= target_score   *)
(* or retry_count >= max_retries, and the summaries, critic_score and     *)
(* critic_feedback are those of the most recent cycle: no retry and no    *)
(* retrieval lies between the last critique and the synthesis.            *)
(***************************************************************************)
SynthesizerDue == pc = "synthesizer"

\* the summaries in the state are those of the retrieval on the current
\* sub-questions
SummariesAreCurrent ==
    /\ Len(state.search_results) = Len(state.sub_questions)
    /\ Len(state.summarized_chunks) = Len(state.search_results)
    /\ \A i \in 1..Len(state.sub_questions) :
           /\ state.search_results[i].question = state.sub_questions[i]
           /\ IsDerivedFrom(state.summarized_chunks[i],
                            state.search_results[i])

C34_SynthesisOnLastCycle ==
    /\ [](SynthesizerDue =>
              /\ \/ state.critic_score >= state.target_score
                 \/ state.retry_count >= state.max_retries
              /\ SummariesAreCurrent
              /\ executions["retriever"] = executions["retry"] + 1
              /\ executions["summarizer"] = executions["retriever"]
              /\ executions["critic"] = executions["retriever"])
    /\ [][pc' = "critic" => StageRan("summarizer")]_vars
    /\ [][SynthesizerDue' =>
              /\ StageRan("critic")
              /\ state'.summarized_chunks = state.summarized_chunks
              /\ state'.search_results = state.search_results
              /\ state'.retry_count = state.retry_count]_vars
    /\ [][SynthesizerDue =>
              /\ StageRan("synthesizer")
              /\ state'.summarized_chunks = state.summarized_chunks
              /\ state'.critic_score = state.critic_score
              /\ state'.critic_feedback = state.critic_feedback]_vars

\* the synthesizer has run on a third cycle that was still below the
\* target, because the budget of two retries was used up
C34_Witness ==
    /\ pc = "done"
    /\ executions["synthesizer"] = 1
    /\ executions["critic"] = 3
    /\ state.critic_score = 2
    /\ state.target_score = 6
    /\ state.retry_count = 2
    /\ state.max_retries = 2
    /\ "final_answer" \in DOMAIN state

(***************************************************************************)
(* C35: when the language call of the refine strategy fails during a      *)
(* retry, retry_count is still incremented by 1 and sub_questions is left *)
(* exactly as in the previous cycle, so the next retrieval cycle runs the *)
(* same queries again and the failed retry still uses up one unit of the  *)
(* retry budget.                                                          *)
(***************************************************************************)
\* a step of the retry node in which the call of the refine strategy fails
RefineFails ==
    /\ pc = "retry"
    /\ state.retry_count < state.max_retries
    /\ StrategyFor(state.retry_count) = "refine"
    /\ state' = retry_retrieval(state, Raises(LlmError), 1)

\* the queries the retriever has sent are the sub-questions it was given
SameQueries(results, sub_questions) ==
    /\ Len(results) = Len(sub_questions)
    /\ \A i \in 1..Len(sub_questions) : results[i].question = sub_questions[i]

C35_FailedRefineUsesBudget ==
    /\ [][RefineFails =>
              /\ state'.retry_count = state.retry_count + 1
              /\ state'.sub_questions = state.sub_questions
              /\ SameQueries(state.search_results, state'.sub_questions)
              /\ "retry_" \o ToString(state'.retry_count)
                     \in DOMAIN state'.processing_time
              /\ pc' = "retriever"]_vars
    /\ [][StageRan("retriever") =>
              SameQueries(state'.search_results, state.sub_questions)]_vars

\* the planner's call failed and so did the call of the first retry: the
\* second retrieval is due on the single sub-question of the first
C35_Witness ==
    /\ pc = "retriever"
    /\ executions["retry"] = 1
    /\ state.retry_count = 1
    /\ state.sub_questions = <<Question>>
    /\ SameQueries(state.search_results, state.sub_questions)
    /\ Timed("retry_1")

(***************************************************************************)
(* C36: in every reachable state of a run after the first retriever       *)
(* execution has started, the number of retriever executions started so   *)
(* far equals retry_count + 1, and the number of retry executions equals  *)
(* retry_count.                                                           *)
(***************************************************************************)
\* the executions of the retriever that have returned, and the one that is
\* under way
RetrieversStarted ==
    executions["retriever"] + IF pc = "retriever" THEN 1 ELSE 0

C36_CountersFollowRetryCount ==
    RetrieversStarted >= 1 =>
        /\ RetrieversStarted = state.retry_count + 1
        /\ executions["retry"] = state.retry_count

\* the fourth retrieval is under way after three retries
C36_Witness ==
    /\ pc = "retriever"
    /\ executions["retriever"] = 3
    /\ executions["retry"] = 3
    /\ state.retry_count = 3

====
